---- MODULE Spec2Model ----
(***************************************************************************)
(* A model of the Smart Hospital agent service (src/app.py):               *)
(*   - the Tool Catalog            SmartHospitalAgent._define_hospital_tools *)
(*   - the Hospital API Gateway    _make_hospital_api_call,                 *)
(*                                 _execute_hospital_function               *)
(*   - the Relevance Extractor     _get_relevant_hospital_data              *)
(*   - the Conversation Orchestrator  chat_with_tools                       *)
(*   - the Flask service           get_agent, chat, get_hospital_data       *)
(*                                                                         *)
(* Text is a sequence of one-character strings, so that lower-casing and   *)
(* substring search are computed and not assumed.  A Python dict is a      *)
(* function whose domain is its key set; the empty dict is <<>>.           *)
(***************************************************************************)
EXTENDS Integers, Sequences, FiniteSets, TLC

VARIABLES
    use_function_calling,  \* self.use_function_calling
    pc,                    \* position of the running call
    user_message,          \* chat_with_tools / extractor argument
    conversation_history,  \* chat_with_tools argument
    hospital_data,         \* the ContextBundle (data / hospital_data)
    messages,              \* the Conversation being built
    payload,               \* the outbound LLM payload
    message,               \* the assistant message of the first LLM response
    tool_results,          \* tool turns built by the tool-call loop
    final_message,         \* the assistant message of the second LLM response
    result,                \* the value returned by the call
    calls,                 \* every outbound call made, in order
    environ,               \* os.environ: the OPENROUTER_API_KEY entry
    agent,                 \* the module-level `agent` (<<>> is None)
    instances,             \* SmartHospitalAgent objects constructed so far
    threads                \* per server thread: the request it is handling

\* The state of the Flask process around the agent.
service == << environ, agent, instances, threads >>

vars == << use_function_calling, pc, user_message, conversation_history,
           hospital_data, messages, payload, message, tool_results,
           final_message, result, calls, service >>

(***************************************************************************)
(* Bounds of the model.                                                    *)
(***************************************************************************)
MaxWords == 2        \* words in a message of the method-level specification
MaxToolCalls == 2    \* tool invocations in one model response
MaxHistoryLen == 4   \* turns of a conversation a caller feeds back

\* The server threads that handle requests at the same time.
Threads == {"thread_1", "thread_2"}

(***************************************************************************)
(* Text: str.lower() and the `in` substring test.                          *)
(***************************************************************************)
UpperAlpha ==
    <<"A","B","C","D","E","F","G","H","I","J","K","L","M",
      "N","O","P","Q","R","S","T","U","V","W","X","Y","Z">>

LowerAlpha ==
    <<"a","b","c","d","e","f","g","h","i","j","k","l","m",
      "n","o","p","q","r","s","t","u","v","w","x","y","z">>

UpperToLower ==
    [c \in { UpperAlpha[i] : i \in 1..Len(UpperAlpha) } |->
        LowerAlpha[CHOOSE i \in 1..Len(UpperAlpha) : UpperAlpha[i] = c]]

LowerChar(c) == IF c \in DOMAIN UpperToLower THEN UpperToLower[c] ELSE c

Lower(s) == [i \in 1..Len(s) |-> LowerChar(s[i])]

\* word in text
Contains(word, text) ==
    \/ word = <<>>
    \/ \E i \in 0..(Len(text) - Len(word)) :
          /\ text[i + 1] = word[1]
          /\ \A j \in 2..Len(word) : text[i + j] = word[j]

\* any(word in text for word in words)
AnyWordIn(words, text) ==
    \E k \in 1..Len(words) : Contains(words[k], text)

(***************************************************************************)
(* chat_with_tools: the hospital-domain keyword list.                      *)
(***************************************************************************)
hospital_keywords ==
    << <<"p","a","t","i","e","n","t">>,
       <<"s","t","a","f","f">>,
       <<"r","o","o","m">>,
       <<"b","e","d">>,
       <<"a","l","e","r","t">>,
       <<"v","i","t","a","l">>,
       <<"d","e","v","i","c","e">>,
       <<"i","o","t">>,
       <<"a","n","o","m","a","l","y">>,
       <<"t","r","e","a","t","m","e","n","t">>,
       <<"s","c","h","e","d","u","l","e">>,
       <<"s","i","m","u","l","a","t","i","o","n">>,
       <<"w","a","r","d">>,
       <<"c","r","i","t","i","c","a","l">>,
       <<"m","o","n","i","t","o","r">>,
       <<"h","o","s","p","i","t","a","l">> >>

\* needs_hospital_data = any(keyword in user_message.lower() ...)
NeedsHospitalData(msg) ==
    \E message_lower \in { Lower(msg) } :
        AnyWordIn(hospital_keywords, message_lower)

(***************************************************************************)
(* _get_relevant_hospital_data: the eight `if any(...)` blocks in source   *)
(* order.  category is the name the service uses for the data set          *)
(* (endpoint_map of get_hospital_data); key is the key the block writes.   *)
(***************************************************************************)
ExtractorBlocks ==
    << [category |-> "patients",
        words |-> << <<"p","a","t","i","e","n","t">>,
                     <<"p","a","t","i","e","n","t","s">> >>,
        endpoint |-> "/patients/", key |-> "patients"],
       [category |-> "alerts",
        words |-> << <<"a","l","e","r","t">>,
                     <<"a","l","e","r","t","s">> >>,
        endpoint |-> "/alerts/", key |-> "alerts"],
       [category |-> "staff",
        words |-> << <<"s","t","a","f","f">>,
                     <<"d","o","c","t","o","r">>,
                     <<"n","u","r","s","e">> >>,
        endpoint |-> "/staff/", key |-> "staff"],
       [category |-> "rooms",
        words |-> << <<"r","o","o","m">>,
                     <<"r","o","o","m","s">> >>,
        endpoint |-> "/rooms/", key |-> "rooms"],
       [category |-> "beds",
        words |-> << <<"b","e","d">>,
                     <<"b","e","d","s">> >>,
        endpoint |-> "/beds/", key |-> "beds"],
       [category |-> "devices",
        words |-> << <<"d","e","v","i","c","e">>,
                     <<"d","e","v","i","c","e","s">>,
                     <<"i","o","t">>,
                     <<"s","e","n","s","o","r">> >>,
        endpoint |-> "/iotData/", key |-> "iot_devices"],
       [category |-> "anomalies",
        words |-> << <<"a","n","o","m","a","l","y">>,
                     <<"a","n","o","m","a","l","i","e","s">> >>,
        endpoint |-> "/anomalies/", key |-> "anomalies"],
       [category |-> "simulation",
        words |-> << <<"s","i","m","u","l","a","t","i","o","n">>,
                     <<"s","t","a","t","u","s">> >>,
        endpoint |-> "/simulation/status", key |-> "simulation_status"] >>

(***************************************************************************)
(* _define_hospital_tools: the Tool Catalog, one name per descriptor, in   *)
(* the order of the returned list.                                         *)
(***************************************************************************)
ToolCatalog ==
    << "get_all_patients", "get_patient", "create_patient", "update_patient",
       "get_patient_vitals", "get_patient_treatments", "predict_patient_risk",
       "get_current_alerts",
       "get_all_staff", "get_staff", "get_staff_schedule",
       "get_all_iot_devices", "get_device_data", "get_latest_vitals",
       "detect_anomaly", "get_all_anomalies",
       "get_all_rooms", "get_room", "assign_patient_to_room",
       "get_all_beds", "get_bed", "assign_patient_to_bed",
       "get_simulation_status" >>

CatalogNames == { ToolCatalog[i] : i \in 1..Len(ToolCatalog) }

(***************************************************************************)
(* The hospital backend's answer to one HTTP call:                         *)
(*   ok       2xx with a JSON body                                         *)
(*   network  requests.exceptions.ConnectionError / Timeout                *)
(*   non_2xx  raise_for_status() raises requests.exceptions.HTTPError      *)
(* All failures are requests.exceptions.RequestException.                  *)
(***************************************************************************)
HospitalOutcomes == {"ok", "network", "non_2xx"}

HttpMethods == {"GET", "POST", "PUT", "PATCH", "DELETE"}

\* What a callee hands back: a returned value, or a raised exception, with
\* the outbound calls it made.
Returned(value, made) == [raised |-> FALSE, value |-> value, calls |-> made]
Raised(made) == [raised |-> TRUE, value |-> <<>>, calls |-> made]

HospitalCall(endpoint, method, outcome) ==
    [to |-> "hospital", method |-> method, endpoint |-> endpoint,
     outcome |-> outcome]

\* _make_hospital_api_call whose except clause is missing: the failure
\* leaves the method as an exception.
MakeHospitalApiCallUncaught(endpoint, method, outcome) ==
    IF method \notin HttpMethods
    THEN Raised(<<>>)
    ELSE IF outcome = "ok"
         THEN Returned([payload |-> endpoint],
                       << HospitalCall(endpoint, method, outcome) >>)
         ELSE Raised(<< HospitalCall(endpoint, method, outcome) >>)

\* _make_hospital_api_call that sends a failed request once more.
MakeHospitalApiCallRetrying(endpoint, method, outcome) ==
    IF method \notin HttpMethods
    THEN Raised(<<>>)
    ELSE IF outcome = "ok"
         THEN Returned([payload |-> endpoint],
                       << HospitalCall(endpoint, method, outcome) >>)
         ELSE Returned([error |-> "API call failed"],
                       << HospitalCall(endpoint, method, outcome),
                          HospitalCall(endpoint, method, outcome) >>)

\* _make_hospital_api_call: one request by method; a RequestException becomes
\* {"error": ...}.  A method outside the elif chain leaves `response` unbound.
MakeHospitalApiCall(endpoint, method, outcome) ==
    IF method \notin HttpMethods
    THEN Raised(<<>>)
    ELSE Returned(IF outcome = "ok"
                  THEN [payload |-> endpoint]
                  ELSE [error |-> "API call failed"],
                  << HospitalCall(endpoint, method, outcome) >>)

(***************************************************************************)
(* _execute_hospital_function: the if/elif chain in source order.  use     *)
(* says how the branch touches `arguments`:                                *)
(*   get     arguments.get(...)   (AttributeError unless a dict)           *)
(*   params  params=arguments     (handed to requests as the query)        *)
(*   none    not read                                                      *)
(***************************************************************************)
Handlers ==
    << [name |-> "get_all_patients", method |-> "GET", use |-> "params",
        endpoint |-> "/patients/"],
       [name |-> "get_patient", method |-> "GET", use |-> "get",
        endpoint |-> "/patients/{patient_id}"],
       [name |-> "create_patient", method |-> "POST", use |-> "get",
        endpoint |-> "/patients/"],
       [name |-> "update_patient", method |-> "PUT", use |-> "get",
        endpoint |-> "/patients/{patient_id}"],
       [name |-> "get_patient_vitals", method |-> "GET", use |-> "get",
        endpoint |-> "/patients/{patient_id}/vitals"],
       [name |-> "get_patient_treatments", method |-> "GET", use |-> "get",
        endpoint |-> "/patients/{patient_id}/treatments"],
       [name |-> "predict_patient_risk", method |-> "GET", use |-> "get",
        endpoint |-> "/predict/risk/{patient_id}"],
       [name |-> "get_current_alerts", method |-> "GET", use |-> "none",
        endpoint |-> "/alerts/"],
       [name |-> "get_all_staff", method |-> "GET", use |-> "params",
        endpoint |-> "/staff/"],
       [name |-> "get_staff", method |-> "GET", use |-> "get",
        endpoint |-> "/staff/{staff_id}"],
       [name |-> "get_staff_schedule", method |-> "GET", use |-> "get",
        endpoint |-> "/staff/{staff_id}/schedule"],
       [name |-> "get_all_iot_devices", method |-> "GET", use |-> "none",
        endpoint |-> "/iotData/"],
       [name |-> "get_device_data", method |-> "GET", use |-> "get",
        endpoint |-> "/iotData/{device_id}"],
       [name |-> "get_latest_vitals", method |-> "GET", use |-> "get",
        endpoint |-> "/iotData/{device_id}/vitals/latest"],
       [name |-> "detect_anomaly", method |-> "GET", use |-> "get",
        endpoint |-> "/anomalies/detect/{monitor_id}"],
       [name |-> "get_all_anomalies", method |-> "GET", use |-> "params",
        endpoint |-> "/anomalies/"],
       [name |-> "get_all_rooms", method |-> "GET", use |-> "none",
        endpoint |-> "/rooms/"],
       [name |-> "get_room", method |-> "GET", use |-> "get",
        endpoint |-> "/rooms/{room_id}"],
       [name |-> "assign_patient_to_room", method |-> "POST", use |-> "get",
        endpoint |-> "/rooms/{room_id}/assign-patient/{patient_id}"],
       [name |-> "get_all_beds", method |-> "GET", use |-> "none",
        endpoint |-> "/beds/"],
       [name |-> "get_bed", method |-> "GET", use |-> "get",
        endpoint |-> "/beds/{bed_id}"],
       [name |-> "assign_patient_to_bed", method |-> "POST", use |-> "get",
        endpoint |-> "/beds/{bed_id}/assign-patient/{patient_id}"],
       [name |-> "get_simulation_status", method |-> "GET", use |-> "none",
        endpoint |-> "/simulation/status"] >>

\* The kinds of value `arguments` can be: a JSON object (dict) or any other
\* JSON value (list, string, number, null).
ArgumentKinds == {"object", "non_object"}

\* What the backend and the HTTP client do during one gateway call: the
\* backend's answer, and whether requests can encode a non-dict `params`.
GatewayEnvs == [outcome : HospitalOutcomes, encodable : BOOLEAN]

\* The branch of the chain that `function_name` selects; 0 is the else branch.
SelectBranch(function_name) ==
    IF \E i \in 1..Len(Handlers) : Handlers[i].name = function_name
    THEN CHOOSE i \in 1..Len(Handlers) :
            /\ Handlers[i].name = function_name
            /\ \A j \in 1..(i - 1) : Handlers[j].name # function_name
    ELSE 0

\* The else branch of a chain that treats an unknown name as a plain read.
UnknownFunctionAsRead(function_name, env) ==
    MakeHospitalApiCall("/unknown", "GET", env.outcome)

\* else: return {"error": f"Unknown function: {function_name}"}
UnknownFunction(function_name, env) ==
    Returned([error |-> "Unknown function"], <<>>)

ExecuteHospitalFunction(function_name, arguments, env) ==
    LET b == SelectBranch(function_name) IN
    IF b = 0
    THEN UnknownFunction(function_name, env)
    ELSE LET h == Handlers[b] IN
         IF arguments = "non_object" /\ h.use = "get"
         THEN Raised(<<>>)
         ELSE IF arguments = "non_object" /\ h.use = "params"
                 /\ ~env.encodable
              THEN Raised(<<>>)
              ELSE MakeHospitalApiCall(h.endpoint, h.method, env.outcome)

GatewayCall(function_name, arguments) ==
    [to |-> "gateway", name |-> function_name, arguments |-> arguments]

(***************************************************************************)
(* _get_relevant_hospital_data.  outcomes[b] is the backend's answer to    *)
(* the call of block b.  The blocks run in order inside one try: a raised  *)
(* exception skips the blocks after it and sets data['error'].             *)
(***************************************************************************)
BlockTriggered(b, message_lower) ==
    AnyWordIn(ExtractorBlocks[b].words, message_lower)

\* A block whose fetch lets the failure out as an exception: the except
\* clause of the extractor takes over and the later blocks are skipped.
RunBlockStoppingOnFailure(b, message_lower, outcomes, acc) ==
    IF acc.raised \/ ~BlockTriggered(b, message_lower)
    THEN acc
    ELSE LET r == MakeHospitalApiCallUncaught(ExtractorBlocks[b].endpoint,
                                              "GET", outcomes[b])
         IN  IF r.raised
             THEN [raised |-> TRUE,
                   data |-> ("error" :> "Error fetching hospital data")
                                @@ acc.data,
                   calls |-> acc.calls \o r.calls]
             ELSE [raised |-> FALSE,
                   data |-> (ExtractorBlocks[b].key :> r.value) @@ acc.data,
                   calls |-> acc.calls \o r.calls]

\* One `if any(...)` block, run in the state acc the earlier blocks left.
RunBlock(b, message_lower, outcomes, acc) ==
    IF acc.raised \/ ~BlockTriggered(b, message_lower)
    THEN acc
    ELSE LET r == MakeHospitalApiCall(ExtractorBlocks[b].endpoint, "GET",
                                      outcomes[b])
         IN  IF r.raised
             THEN [raised |-> TRUE,
                   data |-> ("error" :> "Error fetching hospital data")
                                @@ acc.data,
                   calls |-> acc.calls \o r.calls]
             ELSE [raised |-> FALSE,
                   data |-> (ExtractorBlocks[b].key :> r.value) @@ acc.data,
                   calls |-> acc.calls \o r.calls]

\* The state of the try body after blocks 1..b.  (acc ranges over a one-element
\* set so that the earlier blocks are evaluated once.)
RECURSIVE RunBlocks(_, _, _)
RunBlocks(b, message_lower, outcomes) ==
    IF b = 0
    THEN [raised |-> FALSE, data |-> <<>>, calls |-> <<>>]
    ELSE CHOOSE after \in
             { RunBlock(b, message_lower, outcomes, acc) :
                 acc \in { RunBlocks(b - 1, message_lower, outcomes) } } : TRUE

\* Lines 613-657: the try statement and `return data`.
ReturnData(message_lower, outcomes) ==
    CHOOSE r \in { Returned(acc.data, acc.calls) :
                     acc \in { RunBlocks(Len(ExtractorBlocks), message_lower,
                                         outcomes) } } : TRUE

\* An extractor that matches the message as typed.
GetRelevantHospitalDataAsTyped(msg, outcomes) == ReturnData(msg, outcomes)

\* (message_lower ranges over a one-element set so that user_message.lower()
\* is evaluated once.)
GetRelevantHospitalData(msg, outcomes) ==
    CHOOSE r \in { ReturnData(message_lower, outcomes) :
                     message_lower \in { Lower(msg) } } : TRUE

\* The backend's answers to the calls the extractor can make for msg.
ExtractorOutcomes(msg) ==
    UNION { [ { b \in 1..Len(ExtractorBlocks) :
                  BlockTriggered(b, message_lower) } -> HospitalOutcomes ] :
            message_lower \in { Lower(msg) } }

(***************************************************************************)
(* Messages.                                                               *)
(***************************************************************************)
Vocabulary ==
    {  <<"P","A","T","I","E","N","T","S">>,
       <<"A","l","e","r","t">>,
       <<"s","t","a","f","f">>,
       <<"D","o","c","t","o","r">>,
       <<"n","u","r","s","e">>,
       <<"b","e","d","r","o","o","m">>,
       <<"I","o","T">>,
       <<"s","e","n","s","o","r">>,
       <<"d","e","v","i","c","e">>,
       <<"a","n","o","m","a","l","i","e","s">>,
       <<"a","n","o","m","a","l","y">>,
       <<"S","T","A","T","U","S">>,
       <<"S","i","m","u","l","a","t","i","o","n">>,
       <<"v","i","t","a","l">>,
       <<"h","e","l","l","o">> }

RECURSIVE Phrases(_)
Phrases(n) ==
    IF n = 0 THEN { <<>> }
    ELSE Phrases(n - 1) \cup
         { IF p = <<>> THEN w ELSE p \o <<" ">> \o w :
             p \in Phrases(n - 1), w \in Vocabulary }

\* Messages of the method-level specification.
Messages == Phrases(MaxWords)

\* Messages of the request-level specification.
ChatMessages ==
    {  <<"h","e","l","l","o">>,
       <<"A","L","L"," ","P","A","T","I","E","N","T","S">> }

(***************************************************************************)
(* The LLM backend's answer to one chat-completion call.                   *)
(***************************************************************************)
\* (name, arguments string) pairs the model may emit.  The arguments string
\* decodes to a JSON object, decodes to another JSON value, or is malformed.
ToolCallChoices ==
    { [name |-> "assign_patient_to_room", arguments |-> "object"],
      [name |-> "get_all_patients", arguments |-> "non_object"],
      [name |-> "get_current_alerts", arguments |-> "malformed"],
      [name |-> "delete_patient", arguments |-> "object"] }

RECURSIVE ToolCallLists(_)
ToolCallLists(n) ==
    IF n = 0 THEN { <<>> }
    ELSE ToolCallLists(n - 1) \cup
         { Append(l, [id |-> Len(l) + 1, name |-> c.name,
                      arguments |-> c.arguments]) :
             l \in { x \in ToolCallLists(n - 1) : Len(x) = n - 1 },
             c \in ToolCallChoices }

AssistantMessages ==
    { [role |-> "assistant",
       content |-> IF tcs = <<>> THEN "text" ELSE "null",
       tool_calls |-> tcs] : tcs \in ToolCallLists(MaxToolCalls) }

LlmFailures == {"transport", "non_2xx", "malformed"}

LlmResponses ==
    { [kind |-> k, message |-> <<>>] : k \in LlmFailures } \cup
    { [kind |-> "ok", message |-> m] : m \in AssistantMessages }

\* Answers to the second call: the same, with at most one tool invocation.
FinalLlmResponses ==
    { r \in LlmResponses : r.kind = "ok" => Len(r.message.tool_calls) <= 1 }

\* Log entries.  An LLM call is logged when it is sent and its outcome is
\* filled in when the answer arrives.
LlmCall(p) == [to |-> "llm", payload |-> p, outcome |-> "pending"]

Answered(log, kind) == [log EXCEPT ![Len(log)].outcome = kind]

IsLlmCall(c) == c.to = "llm"
IsGatewayCall(c) == c.to = "gateway"
IsHospitalCall(c) == c.to = "hospital"
LlmCalls == SelectSeq(calls, IsLlmCall)
GatewayCalls == SelectSeq(calls, IsGatewayCall)
HospitalCalls == SelectSeq(calls, IsHospitalCall)

(***************************************************************************)
(* chat_with_tools.                                                        *)
(***************************************************************************)
StandardSystemMessage == [kind |-> "standard"]

HospitalDataSystemMessage(data) == [kind |-> "hospital_data", data |-> data]

\* A mode test that looks at the message alone.
InjectsContextByKeyword(msg) == NeedsHospitalData(msg)

\* if needs_hospital_data and not self.use_function_calling
InjectsContext(msg) == NeedsHospitalData(msg) /\ ~use_function_calling

IsNotSystemTurn(turn) == turn.role # "system"

\* A prompt builder that keeps a single system turn by leaving out the system
\* turns of the history it is given.
InitialMessagesOneSystemTurn(system_message, history, msg) ==
    << [role |-> "system", content |-> system_message] >>
        \o SelectSeq(history, IsNotSystemTurn)
        \o << [role |-> "user", content |-> msg] >>

\* messages = [system] + conversation_history + [user]
InitialMessages(system_message, history, msg) ==
    << [role |-> "system", content |-> system_message] >>
        \o history
        \o << [role |-> "user", content |-> msg] >>

\* payload = {"model", "messages"}, plus "tools" and "tool_choice" when
\* function calling is enabled.
FirstPayload(msgs) ==
    IF use_function_calling
    THEN [model |-> "model", messages |-> msgs,
          tools |-> ToolCatalog, tool_choice |-> "auto"]
    ELSE [model |-> "model", messages |-> msgs]

\* payload["messages"] = messages
SecondPayload(msgs) == [payload EXCEPT !.messages = msgs]

\* if self.use_function_calling and message.get("tool_calls")
WantsTools(m) == use_function_calling /\ m.tool_calls # <<>>

\* [tc["function"]["name"] for tc in message["tool_calls"]]
ToolsUsed(tool_calls) ==
    [i \in 1..Len(tool_calls) |-> tool_calls[i].name]

\* {"tool_call_id": tool_call["id"], "role": "tool", "content": json.dumps(result)}
ToolTurn(tool_call, value) ==
    [tool_call_id |-> tool_call.id, role |-> "tool", content |-> value]

\* An error return that also hands back what the request had built.
ErrorResultWithHistory(description) ==
    [error |-> description, conversation_history |-> messages]

\* The two except clauses: return {"error": ...}
ErrorResult(description) == [error |-> description]

LlmErrorDescription(kind) ==
    IF kind \in {"transport", "non_2xx"}
    THEN "OpenRouter API call failed"
    ELSE "Unexpected error"

DoneResult(content, made, used, history) ==
    [response |-> content, tool_calls_made |-> made, tools_used |-> used,
     conversation_history |-> history]

\* Lines 484-507: the bundle fetched (none in the else branch) and the
\* system message.
SystemMessageFor(msg, outcomes) ==
    IF InjectsContext(msg)
    THEN CHOOSE p \in
             { [fetched |-> ext,
                system_message |-> HospitalDataSystemMessage(ext.value)] :
                 ext \in { GetRelevantHospitalData(msg, outcomes) } } : TRUE
    ELSE [fetched |-> Returned(<<>>, <<>>),
          system_message |-> StandardSystemMessage]

\* Lines 472-542: build the prompt and send the first LLM call.
BuildPrompt(msg, history, outcomes) ==
    \E built \in { SystemMessageFor(msg, outcomes) } :
    \E msgs \in { InitialMessages(built.system_message, history, msg) } :
    \E first \in { FirstPayload(msgs) } :
        /\ user_message' = msg
        /\ conversation_history' = history
        /\ hospital_data' = built.fetched.value
        /\ messages' = msgs
        /\ payload' = first
        /\ calls' = built.fetched.calls \o << LlmCall(first) >>
        /\ message' = <<>>
        /\ tool_results' = <<>>
        /\ final_message' = <<>>
        /\ result' = <<>>
        /\ pc' = "AWAIT_MODEL"
        /\ UNCHANGED use_function_calling

\* The conversation a caller passes: none on the first request, and on a
\* follow-up the one the previous request returned.  (A request that passes
\* no history after an earlier one runs like a first request: nothing of the
\* earlier request is kept.)
CallerHistories ==
    IF pc = "IDLE"
    THEN { <<>> }
    ELSE IF pc = "DONE" /\ Len(result.conversation_history) <= MaxHistoryLen
         THEN { result.conversation_history }
         ELSE {}

StartRequest ==
    /\ pc \in {"IDLE", "DONE"}
    /\ \E msg \in ChatMessages, history \in CallerHistories :
         \E outcomes \in ExtractorOutcomes(msg) :
            BuildPrompt(msg, history, outcomes)
    /\ UNCHANGED service

\* Lines 542-554 and 587-593: the first LLM response.
ModelResponds ==
    /\ pc = "AWAIT_MODEL"
    /\ \E resp \in LlmResponses :
         /\ calls' = Answered(calls, resp.kind)
         /\ IF resp.kind # "ok"
            THEN /\ pc' = "ERROR"
                 /\ result' = ErrorResult(LlmErrorDescription(resp.kind))
                 /\ UNCHANGED << message, tool_results >>
            ELSE /\ message' = resp.message
                 /\ IF WantsTools(resp.message)
                    THEN /\ pc' = "RESOLVE_TOOLS"
                         /\ tool_results' = <<>>
                         /\ UNCHANGED result
                    ELSE /\ pc' = "DONE"
                         /\ result' = DoneResult(resp.message.content, 0,
                                                 <<>>, messages)
                         /\ UNCHANGED tool_results
    /\ UNCHANGED << use_function_calling, user_message, conversation_history,
                    hospital_data, messages, payload, final_message, service >>

\* Lines 558-569: one iteration of the tool-call loop.
ResolveToolCall ==
    /\ pc = "RESOLVE_TOOLS"
    /\ Len(tool_results) < Len(message.tool_calls)
    /\ LET tool_call == message.tool_calls[Len(tool_results) + 1] IN
       IF tool_call.arguments = "malformed"
       THEN \* json.loads raises
            /\ pc' = "ERROR"
            /\ result' = ErrorResult("Unexpected error")
            /\ UNCHANGED << tool_results, calls >>
       ELSE \E env \in GatewayEnvs :
            \E r \in { ExecuteHospitalFunction(tool_call.name,
                                                tool_call.arguments, env) } :
                /\ calls' = calls
                        \o << GatewayCall(tool_call.name, tool_call.arguments) >>
                        \o r.calls
                /\ IF r.raised
                   THEN /\ pc' = "ERROR"
                        /\ result' = ErrorResult("Unexpected error")
                        /\ UNCHANGED tool_results
                   ELSE /\ tool_results' =
                              Append(tool_results, ToolTurn(tool_call, r.value))
                        /\ UNCHANGED << pc, result >>
    /\ UNCHANGED << use_function_calling, user_message, conversation_history,
                    hospital_data, messages, payload, message, final_message,
                    service >>

\* Lines 571-577: extend the conversation and send the second LLM call.
Resubmit ==
    /\ pc = "RESOLVE_TOOLS"
    /\ Len(tool_results) = Len(message.tool_calls)
    /\ messages' = Append(messages, message) \o tool_results
    /\ payload' = SecondPayload(messages')
    /\ calls' = Append(calls, LlmCall(payload'))
    /\ pc' = "AWAIT_MODEL_2"
    /\ UNCHANGED << use_function_calling, user_message, conversation_history,
                    hospital_data, message, tool_results, final_message,
                    result, service >>

\* A second response whose tool invocations are resolved like the first's.
ResolveFinal(m) ==
    IF WantsTools(m)
    THEN /\ pc' = "RESOLVE_TOOLS"
         /\ message' = m
         /\ tool_results' = <<>>
         /\ UNCHANGED << final_message, result >>
    ELSE /\ final_message' = m
         /\ pc' = "DONE"
         /\ result' = DoneResult(m.content, Len(tool_results),
                                 ToolsUsed(message.tool_calls), messages)
         /\ UNCHANGED << message, tool_results >>

\* Lines 579-586: the second response is returned as the final answer.
ReturnFinal(m) ==
    /\ final_message' = m
    /\ pc' = "DONE"
    /\ result' = DoneResult(m.content, Len(tool_results),
                            ToolsUsed(message.tool_calls), messages)
    /\ UNCHANGED << message, tool_results >>

\* Lines 577-586: the second LLM response.
FinalResponds ==
    /\ pc = "AWAIT_MODEL_2"
    /\ \E resp \in FinalLlmResponses :
         /\ calls' = Answered(calls, resp.kind)
         /\ IF resp.kind # "ok"
            THEN /\ pc' = "ERROR"
                 /\ result' = ErrorResult(LlmErrorDescription(resp.kind))
                 /\ UNCHANGED << final_message, message, tool_results >>
            ELSE ReturnFinal(resp.message)
    /\ UNCHANGED << use_function_calling, user_message, conversation_history,
                    hospital_data, messages, payload, service >>

(***************************************************************************)
(* Specifications.                                                         *)
(***************************************************************************)
\* No call running.
NoCall ==
    /\ pc = "IDLE"
    /\ user_message = <<>>
    /\ conversation_history = <<>>
    /\ hospital_data = <<>>
    /\ messages = <<>>
    /\ payload = <<>>
    /\ message = <<>>
    /\ tool_results = <<>>
    /\ final_message = <<>>
    /\ result = <<>>
    /\ calls = <<>>

\* A server thread that handles no request.
IdleThread ==
    [at |-> "idle", request |-> <<>>, hospital_agent |-> <<>>,
     response |-> <<>>]

\* The process after import: agent = None (line 660), no request.
NoService ==
    /\ agent = <<>>
    /\ instances = 0
    /\ threads = [t \in Threads |-> IdleThread]

\* An agent constructed directly: SmartHospitalAgent(key, use_function_calling=b).
Init ==
    /\ use_function_calling \in BOOLEAN
    /\ NoCall
    /\ environ = "set"
    /\ NoService

\* Requests served one after another by one agent.
Next ==
    \/ StartRequest
    \/ ModelResponds
    \/ ResolveToolCall
    \/ Resubmit
    \/ FinalResponds

Spec == Init /\ [][Next]_vars

(***************************************************************************)
(* Method-level specification: one call of one method of an agent, with    *)
(* every message of Messages and every tool name of GatewayNames.          *)
(***************************************************************************)
UnknownNames ==
    {"delete_patient", "get_patients", "GET_PATIENT", "get_patient ", ""}

GatewayNames == CatalogNames \cup UnknownNames

\* agent._execute_hospital_function(function_name, arguments)
CallExecuteHospitalFunction ==
    /\ pc = "IDLE"
    /\ \E function_name \in GatewayNames, arguments \in ArgumentKinds,
          env \in GatewayEnvs :
         \E r \in { ExecuteHospitalFunction(function_name, arguments, env) } :
         /\ calls' = << GatewayCall(function_name, arguments) >> \o r.calls
         /\ result' = r.value
         /\ pc' = IF r.raised THEN "RAISED" ELSE "EXECUTED"
    /\ UNCHANGED << use_function_calling, user_message, conversation_history,
                    hospital_data, messages, payload, message, tool_results,
                    final_message, service >>

\* agent._get_relevant_hospital_data(user_message)
CallGetRelevantHospitalData ==
    /\ pc = "IDLE"
    /\ \E msg \in Messages :
         \E outcomes \in ExtractorOutcomes(msg) :
            \E r \in { GetRelevantHospitalData(msg, outcomes) } :
            /\ user_message' = msg
            /\ calls' = r.calls
            /\ hospital_data' = r.value
            /\ result' = r.value
            /\ pc' = IF r.raised THEN "EXTRACT_RAISED" ELSE "EXTRACTED"
    /\ UNCHANGED << use_function_calling, conversation_history, messages,
                    payload, message, tool_results, final_message, service >>

\* agent.chat_with_tools(user_message), up to the first LLM call.
CallChatWithTools ==
    /\ pc = "IDLE"
    /\ \E msg \in Messages :
         \E outcomes \in ExtractorOutcomes(msg) :
            BuildPrompt(msg, <<>>, outcomes)
    /\ UNCHANGED service

NextMethods ==
    \/ CallExecuteHospitalFunction
    \/ CallGetRelevantHospitalData
    \/ CallChatWithTools

SpecMethods == Init /\ [][NextMethods]_vars

(***************************************************************************)
(* The Flask service: get_agent, /chat and /hospital-data/<endpoint>.      *)
(* A server thread takes a request through the steps of its view function; *)
(* the steps of different threads interleave.  The variables of            *)
(* chat_with_tools hold the locals of the one call that is running: the    *)
(* calls of different requests share nothing but the agent, so they are    *)
(* taken one after another.                                                *)
(***************************************************************************)
\* OPENROUTER_API_KEY in the environment: not there, there and empty, there.
EnvironValues == {"absent", "empty", "set"}

\* os.environ.get('OPENROUTER_API_KEY', "sk-or-v1-...")
ApiKey ==
    IF environ = "absent" THEN "hardcoded"
    ELSE IF environ = "empty" THEN "" ELSE "environment"

\* A get_agent that enables function calling.
FunctionCallingEnabled == TRUE

\* SmartHospitalAgent(api_key, use_function_calling=False)
GetAgentFunctionCalling == FALSE

IsNone(x) == DOMAIN x = {}

\* endpoint_map of get_hospital_data
endpoint_map ==
    ("patients" :> "/patients/") @@ ("alerts" :> "/alerts/")
        @@ ("staff" :> "/staff/") @@ ("rooms" :> "/rooms/")
        @@ ("beds" :> "/beds/") @@ ("devices" :> "/iotData/")
        @@ ("anomalies" :> "/anomalies/")
        @@ ("simulation" :> "/simulation/status")

\* A request.  body is what request.get_json() finds:
\*   malformed   not JSON: get_json raises BadRequest
\*   number      a JSON number other than 0
\*   empty       {} (falsy)
\*   no_message  an object without "message"
\*   message     an object with "message"
\* message_type and history_type are the JSON types of "message" and
\* "conversation_history" ("absent": the key is not there).
ChatRequest(body, message_type, msg, history_type, history) ==
    [route |-> "/chat", body |-> body, message_type |-> message_type,
     message |-> msg, history_type |-> history_type,
     conversation_history |-> history, endpoint |-> ""]

HospitalDataRequest(endpoint) ==
    [route |-> "/hospital-data", body |-> "none", message_type |-> "none",
     message |-> <<>>, history_type |-> "none",
     conversation_history |-> <<>>, endpoint |-> endpoint]

\* The /chat requests of the model.  A conversation_history that is a list is
\* the empty list, as in src/depl/test.py: how chat_with_tools carries a
\* longer history is part of the request-level specification Spec.
ChatRequests ==
    { ChatRequest(b, "none", <<>>, "none", <<>>) :
        b \in {"malformed", "number", "empty", "no_message"} }
    \cup { ChatRequest("message", "number", <<>>, "absent", <<>>) }
    \cup { ChatRequest("message", "str", m, "absent", <<>>) :
             m \in ChatMessages }
    \cup { ChatRequest("message", "str", m, "list", <<>>) :
             m \in ChatMessages }
    \cup { ChatRequest("message", "str", m, "number", <<>>) :
             m \in ChatMessages }

HospitalDataEndpoints == {"patients", "devices", "wards"}

\* The locals of chat_with_tools.
call == << pc, user_message, conversation_history, hospital_data, messages,
           payload, message, tool_results, final_message, result >>

Response(status, body) == [status |-> status, body |-> body]

\* The except clause of a view: 500 with "Internal server error: ...".
InternalServerError == Response(500, [error |-> "Internal server error"])

Responded(t, response) ==
    [threads EXCEPT ![t].at = "responded", ![t].response = response]

AgentFree == \A u \in Threads : threads[u].at # "running"

\* chat, lines 688-698: read the body, reject one without 'message'.
ChatGetJson(t) ==
    /\ threads[t].at \in {"idle", "responded"}
    /\ \E req \in ChatRequests :
         LET taken == [IdleThread EXCEPT !.request = req] IN
         threads' =
            [threads EXCEPT ![t] =
                IF req.body \in {"malformed", "number"}
                THEN \* get_json raises; `'message' not in 5` raises
                     [taken EXCEPT !.at = "responded",
                                   !.response = InternalServerError]
                ELSE IF req.body \in {"empty", "no_message"}
                THEN [taken EXCEPT
                        !.at = "responded",
                        !.response = Response(400,
                            [error |-> "Missing 'message' in request body"])]
                ELSE [taken EXCEPT !.at = "get_agent"]]
    /\ UNCHANGED << use_function_calling, call, calls, environ, agent,
                    instances >>

\* get_hospital_data, lines 722-725: get_agent() comes first.
GetHospitalDataEnter(t) ==
    /\ threads[t].at \in {"idle", "responded"}
    /\ \E endpoint \in HospitalDataEndpoints :
         threads' = [threads EXCEPT ![t] =
                        [IdleThread EXCEPT
                            !.request = HospitalDataRequest(endpoint),
                            !.at = "get_agent"]]
    /\ UNCHANGED << use_function_calling, call, calls, environ, agent,
                    instances >>

\* get_agent, lines 663-669: test the global, read the key.
GetAgentTest(t) ==
    /\ threads[t].at = "get_agent"
    /\ threads' =
         IF ~IsNone(agent)
         THEN [threads EXCEPT ![t].at = "return_agent"]
         ELSE IF ApiKey = ""
              THEN \* raise ValueError, caught by the view
                   Responded(t, InternalServerError)
              ELSE [threads EXCEPT ![t].at = "construct"]
    /\ UNCHANGED << use_function_calling, call, calls, environ, agent,
                    instances >>

\* get_agent, lines 671-672: construct an agent and assign the global.
GetAgentConstruct(t) ==
    /\ threads[t].at = "construct"
    /\ instances' = instances + 1
    /\ agent' = [id |-> instances', openrouter_api_key |-> ApiKey,
                 use_function_calling |-> GetAgentFunctionCalling]
    /\ use_function_calling' = GetAgentFunctionCalling
    /\ threads' = [threads EXCEPT ![t].at = "return_agent"]
    /\ UNCHANGED << call, calls, environ >>

\* get_agent, line 673: return the global.
GetAgentReturn(t) ==
    /\ threads[t].at = "return_agent"
    /\ threads' = [threads EXCEPT ![t].at = "have_agent",
                                  ![t].hospital_agent = agent]
    /\ UNCHANGED << use_function_calling, call, calls, environ, agent,
                    instances >>

\* chat, line 702: hospital_agent.chat_with_tools(user_message,
\* conversation_history), up to the first LLM call.
ChatCallAgent(t) ==
    /\ threads[t].at = "have_agent"
    /\ threads[t].request.route = "/chat"
    /\ AgentFree
    /\ LET req == threads[t].request IN
       IF req.message_type # "str"
       THEN \* line 482: user_message.lower() raises AttributeError
            /\ threads' = Responded(t, InternalServerError)
            /\ UNCHANGED << use_function_calling, call, calls >>
       ELSE IF req.history_type = "number"
       THEN \* line 512: messages.extend(5) raises TypeError, after the
            \* extractor has run
            /\ \E outcomes \in ExtractorOutcomes(req.message) :
                  \E built \in { SystemMessageFor(req.message, outcomes) } :
                     calls' = built.fetched.calls
            /\ threads' = Responded(t, InternalServerError)
            /\ UNCHANGED << use_function_calling, call >>
       ELSE /\ \E outcomes \in ExtractorOutcomes(req.message) :
                  BuildPrompt(req.message, req.conversation_history, outcomes)
            /\ threads' = [threads EXCEPT ![t].at = "running"]
    /\ UNCHANGED << environ, agent, instances >>

\* chat, lines 704-714: the response for the result of chat_with_tools.
ChatResponse(r) ==
    IF "error" \in DOMAIN r
    THEN Response(500, [error |-> r.error])
    ELSE Response(200,
            [response |-> r.response,
             tool_calls_made |-> r.tool_calls_made,
             tools_used |-> r.tools_used,
             conversation_history |-> r.conversation_history])

ChatReturn(t) ==
    /\ threads[t].at = "running"
    /\ pc \in {"DONE", "ERROR"}
    /\ threads' = Responded(t, ChatResponse(result))
    /\ pc' = "IDLE"
    /\ user_message' = <<>>
    /\ conversation_history' = <<>>
    /\ hospital_data' = <<>>
    /\ messages' = <<>>
    /\ payload' = <<>>
    /\ message' = <<>>
    /\ tool_results' = <<>>
    /\ final_message' = <<>>
    /\ result' = <<>>
    /\ calls' = <<>>
    /\ UNCHANGED << use_function_calling, environ, agent, instances >>

\* get_hospital_data, lines 727-751.
GetHospitalDataCall(t) ==
    /\ threads[t].at = "have_agent"
    /\ threads[t].request.route = "/hospital-data"
    /\ AgentFree
    /\ LET endpoint == threads[t].request.endpoint IN
       IF endpoint \notin DOMAIN endpoint_map
       THEN /\ threads' = Responded(t, Response(400,
                                        [error |-> "Unknown endpoint"]))
            /\ UNCHANGED calls
       ELSE \E outcome \in HospitalOutcomes :
            \E r \in { MakeHospitalApiCall(endpoint_map[endpoint], "GET",
                                           outcome) } :
               /\ calls' = r.calls
               /\ threads' = Responded(t,
                     IF r.raised THEN InternalServerError
                     ELSE IF "error" \in DOMAIN r.value
                          THEN Response(500, [error |-> r.value.error])
                          ELSE Response(200, r.value))
    /\ UNCHANGED << use_function_calling, call, environ, agent, instances >>

\* The process after import, before the first request.
InitService ==
    /\ use_function_calling = FALSE
    /\ NoCall
    /\ environ \in EnvironValues
    /\ NoService

NextService ==
    \/ \E t \in Threads : ChatGetJson(t)
    \/ \E t \in Threads : GetHospitalDataEnter(t)
    \/ \E t \in Threads : GetAgentTest(t)
    \/ \E t \in Threads : GetAgentConstruct(t)
    \/ \E t \in Threads : GetAgentReturn(t)
    \/ \E t \in Threads : ChatCallAgent(t)
    \/ ModelResponds
    \/ \E t \in Threads : ChatReturn(t)
    \/ \E t \in Threads : GetHospitalDataCall(t)

SpecService == InitService /\ [][NextService]_vars

(***************************************************************************)
(* Properties.                                                             *)
(***************************************************************************)
HasToolCalls(m) == "tool_calls" \in DOMAIN m /\ m.tool_calls # <<>>

Last(seq) == seq[Len(seq)]

\* The categories of hospital data and the keywords of each, as the
\* specification lists them.
Categories ==
    {"patients", "alerts", "staff", "rooms", "beds", "devices", "anomalies",
     "simulation"}

CategoryKeywords(category) ==
    IF category = "patients" THEN
        { <<"p","a","t","i","e","n","t">>,
          <<"p","a","t","i","e","n","t","s">> } ELSE
    IF category = "alerts" THEN
        { <<"a","l","e","r","t">>,
          <<"a","l","e","r","t","s">> } ELSE
    IF category = "staff" THEN
        { <<"s","t","a","f","f">>,
          <<"d","o","c","t","o","r">>,
          <<"n","u","r","s","e">> } ELSE
    IF category = "rooms" THEN
        { <<"r","o","o","m">>,
          <<"r","o","o","m","s">> } ELSE
    IF category = "beds" THEN
        { <<"b","e","d">>,
          <<"b","e","d","s">> } ELSE
    IF category = "devices" THEN
        { <<"d","e","v","i","c","e">>,
          <<"d","e","v","i","c","e","s">>,
          <<"i","o","t">>,
          <<"s","e","n","s","o","r">> } ELSE
    IF category = "anomalies" THEN
        { <<"a","n","o","m","a","l","y">>,
          <<"a","n","o","m","a","l","i","e","s">> } ELSE
    IF category = "simulation" THEN
        { <<"s","i","m","u","l","a","t","i","o","n">>,
          <<"s","t","a","t","u","s">> } ELSE
        {}

MentionedCategories(msg) ==
    UNION { { c \in Categories :
                \E w \in CategoryKeywords(c) : Contains(w, lowered) } :
            lowered \in { Lower(msg) } }

\* The hospital-domain keywords, as the specification lists them.
DomainKeywords ==
    { <<"p","a","t","i","e","n","t">>,
      <<"s","t","a","f","f">>,
      <<"r","o","o","m">>,
      <<"b","e","d">>,
      <<"a","l","e","r","t">>,
      <<"v","i","t","a","l">>,
      <<"d","e","v","i","c","e">>,
      <<"i","o","t">>,
      <<"a","n","o","m","a","l","y">>,
      <<"t","r","e","a","t","m","e","n","t">>,
      <<"s","c","h","e","d","u","l","e">>,
      <<"s","i","m","u","l","a","t","i","o","n">>,
      <<"w","a","r","d">>,
      <<"c","r","i","t","i","c","a","l">>,
      <<"m","o","n","i","t","o","r">>,
      <<"h","o","s","p","i","t","a","l">> }

HasDomainKeyword(msg) ==
    \E lowered \in { Lower(msg) } :
        \E w \in DomainKeywords : Contains(w, lowered)

\* C1: a call of _execute_hospital_function with a name outside the Tool
\* Catalog returns the unknown-function error and makes no HTTP call to the
\* hospital backend, whatever the arguments are.
C1_UnknownToolNoHttp ==
    (pc \in {"EXECUTED", "RAISED"} /\ calls[1].name \notin CatalogNames)
        => /\ pc = "EXECUTED"
           /\ result = [error |-> "Unknown function"]
           /\ HospitalCalls = <<>>

C1_Witness ==
    /\ pc = "EXECUTED"
    /\ calls[1].name = "delete_patient"
    /\ calls[1].arguments = "non_object"
    /\ "error" \in DOMAIN result

\* C7 (as stated): the keys of the bundle _get_relevant_hospital_data returns
\* are exactly the names of the categories whose keywords occur in the
\* lower-cased message.
C7_KeysAreCategoryNames ==
    pc = "EXTRACTED" => DOMAIN result = MentionedCategories(user_message)

C7_BundleKey(category) ==
    IF category = "devices" THEN "iot_devices"
    ELSE IF category = "simulation" THEN "simulation_status"
    ELSE category

\* C7 (amended): the keys of the bundle are exactly the keys of the categories
\* whose keywords occur in the lower-cased message, where the key of a
\* category is its name, except "iot_devices" for devices and
\* "simulation_status" for simulation; letter case of the message is ignored.
C7_KeysAreTriggeredCategories ==
    pc = "EXTRACTED" =>
        DOMAIN result =
            { C7_BundleKey(c) : c \in MentionedCategories(user_message) }

C7_Witness ==
    /\ pc = "EXTRACTED"
    /\ user_message = <<"I","o","T">> \o <<" ">>
                        \o <<"P","A","T","I","E","N","T","S">>
    /\ DOMAIN result = {"iot_devices", "patients"}

\* C10: at the first LLM call, tool schemas (the whole Tool Catalog, with
\* tool_choice "auto") are in the payload iff function calling is enabled;
\* the extractor has run and its bundle is in the system turn iff the message
\* has a hospital-domain keyword and function calling is disabled; never
\* both; and with neither, no hospital call precedes the LLM call.
C10_ModeDecision ==
    pc = "AWAIT_MODEL" =>
        LET system == messages[1].content
            injected == system.kind = "hospital_data"
        IN  /\ Last(calls).to = "llm" /\ Last(calls).payload = payload
            /\ payload.messages = messages
            /\ use_function_calling <=> "tools" \in DOMAIN payload
            /\ use_function_calling <=> "tool_choice" \in DOMAIN payload
            /\ use_function_calling =>
                   payload.tools = ToolCatalog /\ payload.tool_choice = "auto"
            /\ injected <=>
                   (HasDomainKeyword(user_message) /\ ~use_function_calling)
            /\ injected =>
                   /\ system.data = hospital_data
                   /\ Len(HospitalCalls) =
                          Cardinality(MentionedCategories(user_message))
            /\ ~injected => HospitalCalls = <<>>
            /\ ~(injected /\ "tools" \in DOMAIN payload)

C10_Witness ==
    /\ pc = "AWAIT_MODEL"
    /\ ~use_function_calling
    /\ messages[1].content.kind = "hospital_data"
    /\ Len(HospitalCalls) = 2
    /\ "tools" \notin DOMAIN payload

\* The tool turns the loop of this request appended to the conversation.
AppendedToolTurns ==
    SubSeq(messages, Len(messages) - Len(tool_results) + 1, Len(messages))

\* C2 (as stated): once a response with tool invocations has been handled
\* (function calling enabled), the gateway was called once per invocation in
\* emission order, the conversation ends with one tool turn per invocation
\* carrying its correlation id in the same order, and tool_calls_made is the
\* number of invocations.
C2_EveryInvocationResolved ==
    (use_function_calling /\ HasToolCalls(message)
        /\ pc \in {"AWAIT_MODEL_2", "DONE", "ERROR"})
    => LET requested == message.tool_calls
           n == Len(requested)
       IN  /\ Len(GatewayCalls) = n
           /\ \A i \in 1..n : GatewayCalls[i].name = requested[i].name
           /\ Len(tool_results) = n
           /\ AppendedToolTurns = tool_results
           /\ \A i \in 1..n :
                 /\ tool_results[i].role = "tool"
                 /\ tool_results[i].tool_call_id = requested[i].id
           /\ pc = "DONE" => result.tool_calls_made = n

\* C3 (as stated): the payload of the second LLM call of a request carries
\* the extended conversation and no "tools" or "tool_choice" entry.
C3_SecondCallWithoutTools ==
    Len(LlmCalls) = 2 =>
        /\ LlmCalls[2].payload.messages = messages
        /\ "tools" \notin DOMAIN LlmCalls[2].payload
        /\ "tool_choice" \notin DOMAIN LlmCalls[2].payload

\* C4: a request makes at most two LLM calls; nothing is called after the
\* second one; and a second response that requests tool invocations ends
\* the request in DONE with that response's content as the answer.
C4_SingleToolRoundTrip ==
    /\ Len(LlmCalls) <= 2
    /\ Len(LlmCalls) = 2 => Last(calls).to = "llm"
    /\ HasToolCalls(final_message) =>
          /\ pc = "DONE"
          /\ result.response = final_message.content
          /\ Len(GatewayCalls) = Len(message.tool_calls)

C4_Witness ==
    /\ pc = "DONE"
    /\ HasToolCalls(final_message)
    /\ Len(LlmCalls) = 2
    /\ HospitalCalls # <<>>

\* A tool turn at position i answers an invocation of an earlier assistant turn.
ToolTurnFollowsRequest(conversation, i) ==
    \E j \in 1..(i - 1) :
        /\ conversation[j].role = "assistant"
        /\ HasToolCalls(conversation[j])
        /\ \E k \in 1..Len(conversation[j].tool_calls) :
              conversation[j].tool_calls[k].id = conversation[i].tool_call_id

\* C5 (as stated): every conversation chat_with_tools builds has exactly one
\* system turn, which is first, and no tool turn before the assistant turn
\* that requested it, also when the caller feeds a returned conversation back.
C5_WellFormedConversation ==
    messages # <<>> =>
        /\ messages[1].role = "system"
        /\ \A i \in 2..Len(messages) : messages[i].role # "system"
        /\ \A i \in 1..Len(messages) :
              messages[i].role = "tool" => ToolTurnFollowsRequest(messages, i)

\* C6 (as stated): tools_used of a DONE result lists each invoked tool name
\* exactly once, in order of first emission.
C6_ToolsUsedDistinct ==
    (pc = "DONE" /\ WantsTools(message)) =>
        LET used == result.tools_used
            requested == message.tool_calls
        IN  /\ \A i, j \in 1..Len(used) : used[i] = used[j] => i = j
            /\ \A k \in 1..Len(requested) :
                  \E i \in 1..Len(used) : used[i] = requested[k].name
            /\ \A i \in 1..Len(used) :
                  \E k \in 1..Len(requested) : used[i] = requested[k].name

\* C8: a hospital call made for a tool invocation that fails (network failure
\* or non-2xx) does not end the request: the loop goes on and the invocation's
\* tool turn, with its correlation id, holds the error.
C8_UpstreamFailureIsToolResult ==
    [][ ( /\ pc = "RESOLVE_TOOLS"
          /\ calls' # calls
          /\ Last(calls').to = "hospital"
          /\ Last(calls').outcome \in {"network", "non_2xx"} )
        => ( /\ pc' = "RESOLVE_TOOLS"
             /\ Len(tool_results') = Len(tool_results) + 1
             /\ Last(tool_results').role = "tool"
             /\ Last(tool_results').tool_call_id =
                    message.tool_calls[Len(tool_results')].id
             /\ DOMAIN Last(tool_results').content = {"error"} ) ]_vars

C8_Witness ==
    /\ pc = "DONE"
    /\ Len(LlmCalls) = 2
    /\ \E i \in 1..Len(calls) :
          /\ calls[i].to = "hospital"
          /\ calls[i].method = "POST"
          /\ calls[i].endpoint = "/rooms/{room_id}/assign-patient/{patient_id}"
          /\ calls[i].outcome = "non_2xx"
    /\ \E i \in 1..Len(messages) :
          /\ messages[i].role = "tool"
          /\ DOMAIN messages[i].content = {"error"}

\* C9: when an LLM call of a request has failed (transport, non-2xx or
\* malformed body), the request is in ERROR and its result holds the error
\* description and nothing else.
C9_LlmFailureIsSingleError ==
    (\E i \in 1..Len(calls) :
        calls[i].to = "llm" /\ calls[i].outcome \in LlmFailures)
    => /\ pc = "ERROR"
       /\ DOMAIN result = {"error"}

C9_Witness ==
    /\ pc = "ERROR"
    /\ Len(LlmCalls) = 2
    /\ LlmCalls[2].outcome = "malformed"
    /\ tool_results # <<>>
    /\ DOMAIN result = {"error"}

\* C11: _get_relevant_hospital_data returns and never raises; every category
\* the message triggers is fetched, whether or not an earlier fetch failed,
\* and has its key in the bundle; the key of a category whose fetch failed
\* holds an error marker and the key of one whose fetch succeeded does not.
C11_ExtractionContinues ==
    pc \in {"EXTRACTED", "EXTRACT_RAISED"} =>
        /\ pc = "EXTRACTED"
        /\ \A mentioned \in { MentionedCategories(user_message) } :
              /\ Len(HospitalCalls) = Cardinality(mentioned)
              /\ \A b \in 1..Len(ExtractorBlocks) :
                    ExtractorBlocks[b].category \in mentioned
                    => /\ ExtractorBlocks[b].key \in DOMAIN result
                       /\ \E i \in 1..Len(calls) :
                             /\ calls[i].endpoint = ExtractorBlocks[b].endpoint
                             /\ calls[i].outcome # "ok"
                                  <=> "error" \in
                                         DOMAIN result[ExtractorBlocks[b].key]

C11_Witness ==
    /\ pc = "EXTRACTED"
    /\ Len(calls) = 2
    /\ calls[1].endpoint = "/patients/" /\ calls[1].outcome = "network"
    /\ calls[2].endpoint = "/alerts/" /\ calls[2].outcome = "ok"
    /\ DOMAIN result = {"patients", "alerts"}
    /\ DOMAIN result["patients"] = {"error"}
    /\ DOMAIN result["alerts"] = {"payload"}

\* C12: when the conversation a DONE request returned is passed unchanged as
\* conversation_history of a follow-up, the conversation the follow-up returns
\* contains those turns as one block, each turn unchanged (role tag and
\* content) and in the same order, directly followed by the new user turn;
\* what comes after are the turns the follow-up itself added.
C12_RoundTrip ==
    (pc = "DONE" /\ conversation_history # <<>>) =>
        LET returned == result.conversation_history
            n == Len(conversation_history)
        IN  /\ Len(returned) >= n + 2
            /\ SubSeq(returned, 2, n + 1) = conversation_history
            /\ \A i \in 1..n :
                  returned[i + 1].role = conversation_history[i].role
            /\ returned[n + 2] = [role |-> "user", content |-> user_message]
            /\ \A i \in (n + 3)..Len(returned) :
                  returned[i].role \in {"assistant", "tool"}

C12_Witness ==
    /\ pc = "DONE"
    /\ Len(conversation_history) = 4
    /\ conversation_history[3].role = "assistant"
    /\ conversation_history[4].role = "tool"
    /\ Len(result.conversation_history) = 8
    /\ result.conversation_history[8].role = "tool"

\* C15 (as stated): every message that triggers an extractor category has a
\* hospital-domain keyword: a message for which the extractor returns a
\* non-empty bundle passes the keyword test of chat_with_tools, and with
\* function calling disabled chat_with_tools runs the extractor for it.
C15_DomainKeywordsCoverExtractor ==
    /\ (pc = "EXTRACTED" /\ DOMAIN result # {})
          => NeedsHospitalData(user_message)
    /\ (pc = "AWAIT_MODEL" /\ ~use_function_calling
           /\ MentionedCategories(user_message) # {})
          => /\ messages[1].content.kind = "hospital_data"
             /\ HospitalCalls # <<>>

\* C16 (as stated): a tool invocation whose argument string does not parse is
\* handled like a failed hospital call of that invocation: the loop resolves
\* every invocation of the response, the unparsable one gets a tool turn that
\* holds an error, and the request goes on to the second LLM call.
C16_MalformedArgumentsAreToolResult ==
    (/\ use_function_calling
     /\ HasToolCalls(message)
     /\ pc \in {"AWAIT_MODEL_2", "DONE", "ERROR"}
     /\ \E i \in 1..Len(message.tool_calls) :
           message.tool_calls[i].arguments = "malformed")
    => /\ Len(tool_results) = Len(message.tool_calls)
       /\ Len(LlmCalls) = 2
       /\ \A i \in 1..Len(message.tool_calls) :
             /\ tool_results[i].tool_call_id = message.tool_calls[i].id
             /\ message.tool_calls[i].arguments = "malformed"
                   => DOMAIN tool_results[i].content = {"error"}

\* The HTTP method the specification gives for a tool.
C17_Method(name) ==
    IF name \in {"create_patient", "assign_patient_to_room",
                 "assign_patient_to_bed"}
    THEN "POST"
    ELSE IF name = "update_patient" THEN "PUT" ELSE "GET"

\* C17: for every name of the Tool Catalog, a call of
\* _execute_hospital_function that returns has made exactly one HTTP call to
\* the hospital backend, also when that call failed, with method GET for the
\* read tools, POST for create_patient and the two assign tools and PUT for
\* update_patient; a call with a dict of arguments always returns; a call
\* that raises (arguments that are not a dict) has made no HTTP call.
C17_OneCallPerTool ==
    (pc \in {"EXECUTED", "RAISED"} /\ calls[1].name \in CatalogNames)
    => /\ Len(HospitalCalls) <= 1
       /\ calls[1].arguments = "object" => pc = "EXECUTED"
       /\ pc = "EXECUTED" =>
             /\ Len(HospitalCalls) = 1
             /\ HospitalCalls[1].method = C17_Method(calls[1].name)
       /\ pc = "RAISED" => HospitalCalls = <<>>

C17_Witness ==
    /\ pc = "EXECUTED"
    /\ calls[1].name = "update_patient"
    /\ calls[1].arguments = "object"
    /\ Len(calls) = 2
    /\ calls[2].method = "PUT"
    /\ calls[2].outcome = "network"
    /\ DOMAIN result = {"error"}

\* The threads that have answered a /chat request.
AnsweredChat ==
    { t \in Threads : /\ threads[t].at = "responded"
                      /\ threads[t].request.route = "/chat" }

ChatSuccessFields ==
    {"response", "tool_calls_made", "tools_used", "conversation_history"}

\* The error descriptions chat_with_tools returns.
OrchestratorErrors == {"OpenRouter API call failed", "Unexpected error"}

\* C13 (as stated): every answer of /chat is one of three: status 400 for a
\* body without a 'message' field; status 500 with only the error of the
\* orchestrator's result; status 200 with the fields response,
\* tool_calls_made, tools_used and conversation_history for every other
\* request.
C13_ThreeOutcomes ==
    \A t \in AnsweredChat :
        LET req == threads[t].request
            resp == threads[t].response
        IN  IF req.body # "message"
            THEN resp.status = 400
            ELSE \/ /\ resp.status = 500
                    /\ DOMAIN resp.body = {"error"}
                    /\ resp.body.error \in OrchestratorErrors
                 \/ /\ resp.status = 200
                    /\ DOMAIN resp.body = ChatSuccessFields

\* C14 (as stated): with OPENROUTER_API_KEY absent from the environment
\* get_agent constructs no agent: no SmartHospitalAgent exists and no LLM call
\* is made.
C14_MissingCredentialIsFatal ==
    environ = "absent" =>
        /\ IsNone(agent)
        /\ instances = 0
        /\ LlmCalls = <<>>

\* C18 (as stated): whatever the interleaving of concurrent requests, at most
\* one SmartHospitalAgent is constructed and the process-wide agent is written
\* at most once.
C18_OneAgentPerProcess ==
    /\ instances <= 1
    /\ \A t, u \in Threads :
          (threads[t].at = "construct" /\ threads[u].at = "construct")
              => t = u

\* C19: through /chat and /hospital-data the service only reads the hospital
\* backend: the agent is constructed with function calling disabled, no LLM
\* payload offers tools, the tool-call loop is never entered whatever the
\* model answers, every hospital call is a GET, and every /chat success
\* reports tool_calls_made = 0 and no tools used.
C19_ServiceOnlyReads ==
    /\ ~IsNone(agent) => ~agent.use_function_calling
    /\ ~use_function_calling
    /\ pc \notin {"RESOLVE_TOOLS", "AWAIT_MODEL_2"}
    /\ \A i \in 1..Len(calls) :
          /\ calls[i].to # "gateway"
          /\ calls[i].to = "hospital" => calls[i].method = "GET"
          /\ calls[i].to = "llm" => "tools" \notin DOMAIN calls[i].payload
    /\ pc = "DONE" => result.tool_calls_made = 0 /\ result.tools_used = <<>>
    /\ \A t \in AnsweredChat :
          threads[t].response.status = 200
              => /\ threads[t].response.body.tool_calls_made = 0
                 /\ threads[t].response.body.tools_used = <<>>

C19_Witness ==
    /\ pc = "DONE"
    /\ \E t \in Threads : threads[t].at = "running"
    /\ HasToolCalls(message)
    /\ message.tool_calls[1].name = "assign_patient_to_room"
    /\ Len(HospitalCalls) = 1
    /\ HospitalCalls[1].method = "GET"
    /\ result.tool_calls_made = 0
    /\ \E t \in AnsweredChat :
          /\ threads[t].response.status = 200
          /\ threads[t].response.body.tool_calls_made = 0

====
